---- MODULE Spec2Model ----
(***************************************************************************)
(* Model of mc_transformers/featuring.py: the windowing subsystem that     *)
(* turns a multiple-choice example into fixed-length tokenized features.   *)
(*                                                                         *)
(* A text of the pipeline is a sequence of pieces (whitespace separated    *)
(* words); the pretrained tokenizer maps each piece to one or more         *)
(* vocabulary entries.  A string of should_correct_label is a sequence of  *)
(* characters, since that function works on letter case and substrings.    *)
(***************************************************************************)
EXTENDS Integers, Sequences, FiniteSets, TLC

VARIABLES
    entry,            \* the function the caller invoked
    pc,               \* position in the running call
    outcome,          \* "none", or the exception the call ended in
    called,           \* the functions entered so far
    max_length, stride, enable_window, no_answer_text, example,
    context,          \* create_windows: its context argument
    context_tokens, windows, ranges, win_start, win_end, total_size,
    nof_windows, window_texts,
    decision,         \* the value should_window returned
    concats, texts_a, texts_b, features,
    window_context, answer, correct

vars == <<entry, pc, outcome, called, max_length, stride, enable_window,
          no_answer_text, example, context, context_tokens, windows, ranges,
          win_start, win_end, total_size, nof_windows, window_texts,
          decision, concats, texts_a, texts_b, features,
          window_context, answer, correct>>

----------------------------------------------------------------------------
(* Bounds of the model. *)

MaxCtx == 6          \* pieces of a context handed to create_windows
MaxLength == 9       \* largest max_length handed to create_windows
MaxStride == 7       \* largest stride handed to create_windows
MaxExCtx == 3        \* pieces of an example's context
MaxExLength == 5     \* largest max_length of a conversion
MaxExStride == 2     \* largest stride of a conversion
MaxEndings == 2      \* endings of an example
MaxWindowChars == 3  \* characters of a window text of should_correct_label
MaxAnswerChars == 2  \* characters of an answer of should_correct_label

(* Program constants. *)

Reserved == 3        \* "three special tokens will be added"

None == "None"
\* stride=None: an absent stride is the one value outside the strides, which
\* are never negative
NoStride == 0 - 1
Unset == "unset"
\* a Python bool held in a variable that may also be unset
Bool(b) == IF b THEN "True" ELSE "False"

SeqsUpTo(S, n) == UNION {[1..k -> S] : k \in 0..n}

Min(a, b) == IF a < b THEN a ELSE b
Max(a, b) == IF a > b THEN a ELSE b

----------------------------------------------------------------------------
(* The pretrained tokenizer (an external collaborator), on the pieces the  *)
(* model draws its texts from.                                             *)

CtxPieces == {"a", "[SEP]"}
QPieces == {"a", "_"}
EndPieces == {"ab", "zz", "zzz"}

SpecialTokens == {"[PAD]", "[CLS]", "[SEP]"}

\* number of characters of a piece
PieceChars(p) ==
    CASE p = "a" -> 1
      [] p = "_" -> 1
      [] p = "ab" -> 2
      [] p = "zz" -> 2
      [] p = "zzz" -> 3
      [] p = "[SEP]" -> 5

\* vocabulary entries of a piece: "ab" is split into two subwords, the
\* literal "[SEP]" is the separator token itself
PieceTokens(p) ==
    CASE p = "a" -> <<"a">>
      [] p = "_" -> <<"_">>
      [] p = "ab" -> <<"a", "##b">>
      [] p = "zz" -> <<"zz">>
      [] p = "zzz" -> <<"zzz">>
      [] p = "[SEP]" -> <<"[SEP]">>

RECURSIVE Encode(_)
\* tokenizer.encode(text, add_special_tokens=False)
Encode(text) ==
    IF text = <<>> THEN <<>>
    ELSE PieceTokens(Head(text)) \o Encode(Tail(text))

IsOrdinary(t) == t \notin SpecialTokens

\* tokenizer.decode(tokens, skip_special_tokens=True)
Decode(tokens) == SelectSeq(tokens, IsOrdinary)

RECURSIVE SumChars(_)
SumChars(text) ==
    IF text = <<>> THEN 0 ELSE PieceChars(Head(text)) + SumChars(Tail(text))

\* len(text) of a text whose pieces are joined by single spaces
CharLen(text) == IF text = <<>> THEN 0 ELSE SumChars(text) + Len(text) - 1

----------------------------------------------------------------------------
(* Python built-ins. *)

\* seq[start:stop] resolves to the half-open range lo..hi of 0-based
\* positions: a negative index counts from the end, both are clipped
SliceIndex(i, n) == IF i < 0 THEN Max(i + n, 0) ELSE Min(i, n)

SliceRange(n, start, stop) ==
    LET lo == SliceIndex(start, n)
        hi == SliceIndex(stop, n)
    IN  IF lo < hi THEN [lo |-> lo, hi |-> hi] ELSE [lo |-> lo, hi |-> lo]

Slice(seq, start, stop) ==
    LET r == SliceRange(Len(seq), start, stop)
    IN  SubSeq(seq, r.lo + 1, r.hi)

\* round(n / d) for n >= 0 and d > 0: halves go to the even neighbour
RoundHalfEven(n, d) ==
    LET q == n \div d
        r == n % d
    IN  IF 2 * r < d THEN q
        ELSE IF 2 * r > d THEN q + 1
        ELSE IF q % 2 = 0 THEN q ELSE q + 1

----------------------------------------------------------------------------
(* create_windows *)

Capacity(ml) == ml - Reserved

WindowCountSwallowsZero(total, ml, s) ==
    LET d == Capacity(ml) - s
    IN  IF d = 0 THEN [error |-> "none", value |-> 0]
        ELSE IF d > 0
        THEN [error |-> "none", value |-> RoundHalfEven(total, d)]
        ELSE [error |-> "none", value |-> 0 - RoundHalfEven(total, 0 - d)]

\* round(total_size / (max_length - stride)), or the exception of the
\* division
WindowCount(total, ml, s) ==
    LET d == Capacity(ml) - s
    IN  IF d = 0 THEN [error |-> "ZeroDivisionError", value |-> 0]
        ELSE IF d > 0
        THEN [error |-> "none", value |-> RoundHalfEven(total, d)]
        ELSE [error |-> "none", value |-> 0 - RoundHalfEven(total, 0 - d)]

NextWinStart(we, s) == we - s

NextWinEndOneMore(ws, ml, total) == Min(ws + Capacity(ml) + 1, total)

NextWinEnd(ws, ml, total) == Min(ws + Capacity(ml), total)

\* lines 79-86: the locals are set and the number of windows is computed
CreateWindowsEnter ==
    /\ pc = "create_windows"
    /\ called' = called \cup {"create_windows"}
    /\ context_tokens' = Encode(context)
    /\ windows' = <<>>
    /\ ranges' = <<>>
    /\ win_start' = 0
    /\ win_end' = Capacity(max_length)
    /\ total_size' = Len(Encode(context))
    /\ LET k == WindowCount(Len(Encode(context)), max_length, stride)
       IN  IF k.error # "none"
           THEN /\ outcome' = k.error
                /\ pc' = "raised"
                /\ nof_windows' = 0
           ELSE /\ outcome' = outcome
                /\ pc' = "window_loop"
                /\ nof_windows' = k.value
    /\ UNCHANGED <<entry, max_length, stride, enable_window, no_answer_text,
                   example, context, window_texts, decision, concats,
                   texts_a, texts_b, features, window_context, answer,
                   correct>>

\* lines 87-90: one iteration of the loop
CreateWindowsIter ==
    /\ pc = "window_loop"
    /\ Len(windows) < nof_windows
    /\ windows' = Append(windows, Slice(context_tokens, win_start, win_end))
    /\ ranges' = Append(ranges, [start |-> win_start, stop |-> win_end,
                  lo |-> SliceRange(total_size, win_start, win_end).lo,
                  hi |-> SliceRange(total_size, win_start, win_end).hi])
    /\ win_start' = NextWinStart(win_end, stride)
    /\ win_end' = NextWinEnd(NextWinStart(win_end, stride), max_length,
                             total_size)
    /\ UNCHANGED <<entry, pc, outcome, called, max_length, stride,
                   enable_window, no_answer_text, example, context,
                   context_tokens, total_size, nof_windows, window_texts,
                   decision, concats, texts_a, texts_b, features,
                   window_context, answer, correct>>

\* lines 92-95: the windows are decoded and returned
CreateWindowsReturn ==
    /\ pc = "window_loop"
    /\ Len(windows) >= nof_windows
    /\ window_texts' = [i \in 1..Len(windows) |-> Decode(windows[i])]
    /\ pc' = IF entry = "create_windows" THEN "done" ELSE "pairs"
    /\ UNCHANGED <<entry, outcome, called, max_length, stride,
                   enable_window, no_answer_text, example, context,
                   context_tokens, windows, ranges, win_start, win_end,
                   total_size, nof_windows, decision, concats, texts_a,
                   texts_b, features, window_context, answer, correct>>

----------------------------------------------------------------------------
(* concat_question_and_endings *)

RECURSIVE CountBlanks(_)
CountBlanks(question) ==
    IF question = <<>> THEN 0
    ELSE (IF Head(question) = "_" THEN 1 ELSE 0) + CountBlanks(Tail(question))

RECURSIVE Replace(_, _)
\* question.replace("_", end)
Replace(question, end) ==
    IF question = <<>> THEN <<>>
    ELSE (IF Head(question) = "_" THEN end ELSE <<Head(question)>>)
             \o Replace(Tail(question), end)

\* one concatenation: its text and len() of the string
ConcatOne(question, end) ==
    IF CountBlanks(question) > 0
    THEN [text |-> Replace(question, end),
          chars |-> CharLen(question) - CountBlanks(question)
                        + CountBlanks(question) * CharLen(end)]
    ELSE [text |-> question \o end,
          chars |-> CharLen(question) + 1 + CharLen(end)]

ConcatQuestionAndEndings(question, endings) ==
    [i \in 1..Len(endings) |-> ConcatOne(question, endings[i])]

----------------------------------------------------------------------------
(* argmax and should_window *)

\* max(enumerate(arr), key=len) keeps the first of the longest entries;
\* the index is 1-based here
ArgMax(arr) ==
    CHOOSE j \in 1..Len(arr) :
        /\ \A k \in 1..Len(arr) : arr[k].chars <= arr[j].chars
        /\ \A k \in 1..(j - 1) : arr[k].chars < arr[j].chars

ShouldWindowInclusive(ex, ml) ==
    IF ex.contexts = <<>> THEN [error |-> "IndexError", value |-> FALSE]
    ELSE IF ex.endings = <<>> THEN [error |-> "ValueError", value |-> FALSE]
    ELSE LET cs == ConcatQuestionAndEndings(ex.question, ex.endings)
             longest_concat == cs[ArgMax(cs)]
         IN  [error |-> "none",
              value |-> Len(Encode(ex.contexts[1]))
                          + Len(Encode(longest_concat.text)) >= Capacity(ml)]

\* contexts[0] of an example without contexts is an IndexError, max() of no
\* concatenation a ValueError
ShouldWindow(ex, ml) ==
    IF ex.contexts = <<>> THEN [error |-> "IndexError", value |-> FALSE]
    ELSE IF ex.endings = <<>> THEN [error |-> "ValueError", value |-> FALSE]
    ELSE LET cs == ConcatQuestionAndEndings(ex.question, ex.endings)
             longest_concat == cs[ArgMax(cs)]
         IN  [error |-> "none",
              value |-> Len(Encode(ex.contexts[1]))
                          + Len(Encode(longest_concat.text)) > Capacity(ml)]

----------------------------------------------------------------------------
(* create_input_features *)

Padding(k) == [i \in 1..k |-> "[PAD]"]

\* What a tokenizer does under truncation='only_first' when the first
\* segment is not longer than the overflow: a slow tokenizer logs an error
\* and truncates nothing, a fast one raises.
TruncationBehaviours == {"untruncated", "raises"}

TokenizeOffByOne(text_a, text_b, ml, behaviour) ==
    LET a == Encode(text_a)
        b == Encode(text_b)
        excess == Len(a) + Len(b) + Reserved - ml
        row(x, pad) == <<"[CLS]">> \o x \o <<"[SEP]">> \o b \o <<"[SEP]">>
                           \o Padding(pad)
    IN  IF excess <= 0 THEN [error |-> "none", input_ids |-> row(a, 0 - excess)]
        ELSE IF Len(a) > excess
        THEN [error |-> "none",
              input_ids |-> row(SubSeq(a, 1, Len(a) - excess + 1), 0)]
        ELSE IF behaviour = "raises"
        THEN [error |-> "TruncationError", input_ids |-> <<>>]
        ELSE [error |-> "none", input_ids |-> row(a, 0)]

\* tokenizer(text_a, text_b, add_special_tokens=True, max_length=max_length,
\*           padding="max_length", truncation='only_first')
Tokenize(text_a, text_b, ml, behaviour) ==
    LET a == Encode(text_a)
        b == Encode(text_b)
        excess == Len(a) + Len(b) + Reserved - ml
        row(x, pad) == <<"[CLS]">> \o x \o <<"[SEP]">> \o b \o <<"[SEP]">>
                           \o Padding(pad)
    IN  IF excess <= 0 THEN [error |-> "none", input_ids |-> row(a, 0 - excess)]
        ELSE IF Len(a) > excess
        THEN [error |-> "none",
              input_ids |-> row(SubSeq(a, 1, Len(a) - excess), 0)]
        ELSE IF behaviour = "raises"
        THEN [error |-> "TruncationError", input_ids |-> <<>>]
        ELSE [error |-> "none", input_ids |-> row(a, 0)]

\* lines 119-152, for the pairs texts_a, texts_b
CreateInputFeatures ==
    /\ pc = "features"
    /\ called' = called \cup {"create_input_features", "tokenizer"}
    /\ \E behaviour \in TruncationBehaviours :
         LET choices_inputs ==
                 [i \in 1..Len(texts_a) |->
                     Tokenize(texts_a[i], texts_b[i], max_length, behaviour)]
             failed == {i \in 1..Len(texts_a) :
                           choices_inputs[i].error # "none"}
         IN  IF failed # {}
             THEN /\ outcome' = "TruncationError"
                  /\ pc' = "raised"
                  /\ features' = features
             ELSE IF choices_inputs = <<>>
             THEN /\ outcome' = "IndexError"
                  /\ pc' = "raised"
                  /\ features' = features
             ELSE /\ outcome' = outcome
                  /\ pc' = "done"
                  /\ features' = Append(features,
                        [input_ids |-> [i \in 1..Len(texts_a) |->
                                           choices_inputs[i].input_ids]])
    /\ UNCHANGED <<entry, max_length, stride, enable_window, no_answer_text,
                   example, context, context_tokens, windows, ranges,
                   win_start, win_end, total_size, nof_windows, window_texts,
                   decision, concats, texts_a, texts_b, window_context,
                   answer, correct>>

----------------------------------------------------------------------------
(* windowed_tokenization *)

CrossPairsEndingMajor(wins, cs) ==
    [i \in 1..(Len(wins) * Len(cs)) |->
        [a |-> wins[((i - 1) % Len(wins)) + 1],
         b |-> cs[((i - 1) \div Len(wins)) + 1].text]]

\* [(text_a, text_b) for text_a in window_texts for text_b in concats]
CrossPairs(wins, cs) ==
    [i \in 1..(Len(wins) * Len(cs)) |->
        [a |-> wins[((i - 1) \div Len(cs)) + 1],
         b |-> cs[((i - 1) % Len(cs)) + 1].text]]

\* lines 172-181: after window_fn returned; unpacking the empty zip into
\* texts_a, texts_b is a ValueError
WindowedPairs ==
    /\ pc = "pairs"
    /\ called' = called \cup {"concat_question_and_endings"}
    /\ concats' = ConcatQuestionAndEndings(example.question, example.endings)
    /\ LET pairs == CrossPairs(window_texts,
               ConcatQuestionAndEndings(example.question, example.endings))
       IN  IF pairs = <<>>
           THEN /\ outcome' = "ValueError"
                /\ pc' = "raised"
                /\ UNCHANGED <<texts_a, texts_b>>
           ELSE /\ outcome' = outcome
                /\ pc' = "features"
                /\ texts_a' = [i \in 1..Len(pairs) |-> pairs[i].a]
                /\ texts_b' = [i \in 1..Len(pairs) |-> pairs[i].b]
    /\ UNCHANGED <<entry, max_length, stride, enable_window, no_answer_text,
                   example, context, context_tokens, windows, ranges,
                   win_start, win_end, total_size, nof_windows, window_texts,
                   decision, features, window_context, answer, correct>>

----------------------------------------------------------------------------
(* convert_examples_to_features, for a batch of one example *)

ConfigurationErrorStrideOnly(enable, s, na) == enable /\ s = NoStride

\* line 205
ConfigurationError(enable, s, na) == enable /\ (s = NoStride \/ na = None)

\* lines 205-214
ConvertEnter ==
    /\ pc = "convert"
    /\ called' = called \cup {"convert_examples_to_features"}
    /\ IF ConfigurationError(enable_window, stride, no_answer_text)
       THEN outcome' = "ValueError" /\ pc' = "raised"
       ELSE outcome' = outcome /\ pc' = "example"
    /\ UNCHANGED <<entry, max_length, stride, enable_window, no_answer_text,
                   example, context, context_tokens, windows, ranges,
                   win_start, win_end, total_size, nof_windows, window_texts,
                   decision, concats, texts_a, texts_b, features,
                   window_context, answer, correct>>

\* line 219 with windowing enabled: should_window decides the path, and
\* windowed_tokenization hands contexts[0] to create_windows
ExampleWindowing ==
    /\ pc = "example"
    /\ enable_window
    /\ called' = called \cup {"should_window", "concat_question_and_endings",
                              "tokenizer"}
    /\ LET d == ShouldWindow(example, max_length)
       IN  IF d.error # "none"
           THEN /\ outcome' = d.error
                /\ pc' = "raised"
                /\ UNCHANGED <<decision, context>>
           ELSE /\ outcome' = outcome
                /\ decision' = Bool(d.value)
                /\ pc' = IF d.value THEN "create_windows" ELSE "direct"
                /\ context' = IF d.value THEN example.contexts[1] ELSE context
    /\ UNCHANGED <<entry, max_length, stride, enable_window, no_answer_text,
                   example, context_tokens, windows, ranges, win_start,
                   win_end, total_size, nof_windows, window_texts, concats,
                   texts_a, texts_b, features, window_context, answer,
                   correct>>

\* line 219 with windowing disabled: should_window is not evaluated
ExampleNoWindowing ==
    /\ pc = "example"
    /\ ~enable_window
    /\ pc' = "direct"
    /\ UNCHANGED <<entry, outcome, called, max_length, stride, enable_window,
                   no_answer_text, example, context, context_tokens, windows,
                   ranges, win_start, win_end, total_size, nof_windows,
                   window_texts, decision, concats, texts_a, texts_b,
                   features, window_context, answer, correct>>

\* lines 231-241: zip(contexts, concats) pairs each context with its
\* concatenation
DirectPath ==
    /\ pc = "direct"
    /\ called' = called \cup {"concat_question_and_endings"}
    /\ LET cs == ConcatQuestionAndEndings(example.question, example.endings)
           k == Min(Len(example.contexts), Len(cs))
       IN  /\ concats' = cs
           /\ texts_a' = [i \in 1..k |-> example.contexts[i]]
           /\ texts_b' = [i \in 1..k |-> cs[i].text]
    /\ pc' = "features"
    /\ UNCHANGED <<entry, outcome, max_length, stride, enable_window,
                   no_answer_text, example, context, context_tokens, windows,
                   ranges, win_start, win_end, total_size, nof_windows,
                   window_texts, decision, features, window_context, answer,
                   correct>>

Questions == {<<"a">>, <<"_">>}
EndingTexts == {<<"ab">>, <<"zz">>, <<"zzz">>}
NoAnswerTexts == {None, "none of the above"}

\* the examples of the model: one context, repeated for every ending
Examples ==
    {[contexts |-> [i \in 1..Len(es) |-> c], question |-> q, endings |-> es] :
        c \in SeqsUpTo(CtxPieces, MaxExCtx), q \in Questions,
        es \in SeqsUpTo(EndingTexts, MaxEndings)}

Init ==
    /\ entry = "convert_examples_to_features"
    /\ pc = "convert"
    /\ outcome = "none"
    /\ called = {}
    /\ max_length \in Reserved..MaxExLength
    /\ stride \in {NoStride} \cup 0..MaxExStride
    /\ enable_window \in BOOLEAN
    /\ no_answer_text \in NoAnswerTexts
    /\ example \in Examples
    /\ context = <<>>
    /\ context_tokens = <<>>
    /\ windows = <<>>
    /\ ranges = <<>>
    /\ win_start = 0
    /\ win_end = 0
    /\ total_size = 0
    /\ nof_windows = 0
    /\ window_texts = <<>>
    /\ decision = Unset
    /\ concats = <<>>
    /\ texts_a = <<>>
    /\ texts_b = <<>>
    /\ features = <<>>
    /\ window_context = <<>>
    /\ answer = <<>>
    /\ correct = Unset

Next ==
    \/ ConvertEnter
    \/ ExampleWindowing
    \/ ExampleNoWindowing
    \/ DirectPath
    \/ CreateWindowsEnter
    \/ CreateWindowsIter
    \/ CreateWindowsReturn
    \/ WindowedPairs
    \/ CreateInputFeatures

Spec == Init /\ [][Next]_vars

----------------------------------------------------------------------------
(* A direct call of create_windows. *)

NoExample == [contexts |-> <<>>, question |-> <<>>, endings |-> <<>>]

InitWindows ==
    /\ entry = "create_windows"
    /\ pc = "create_windows"
    /\ outcome = "none"
    /\ called = {}
    /\ max_length \in Reserved..MaxLength
    /\ stride \in 0..MaxStride
    /\ enable_window = FALSE
    /\ no_answer_text = None
    /\ example = NoExample
    /\ context \in SeqsUpTo(CtxPieces, MaxCtx)
    /\ context_tokens = <<>>
    /\ windows = <<>>
    /\ ranges = <<>>
    /\ win_start = 0
    /\ win_end = 0
    /\ total_size = 0
    /\ nof_windows = 0
    /\ window_texts = <<>>
    /\ decision = Unset
    /\ concats = <<>>
    /\ texts_a = <<>>
    /\ texts_b = <<>>
    /\ features = <<>>
    /\ window_context = <<>>
    /\ answer = <<>>
    /\ correct = Unset

NextWindows == CreateWindowsEnter \/ CreateWindowsIter \/ CreateWindowsReturn

SpecWindows == InitWindows /\ [][NextWindows]_vars

----------------------------------------------------------------------------
(* TextTokenizer and should_correct_label, on strings of characters.  The  *)
(* NLTK resources are given by what they do to the words over Chars.       *)

Chars == {"n", "N", "o", "s", " "}
Vowels == {"o"}

Lower(c) == IF c = "N" THEN "n" ELSE c

\* str.lower()
LowerStr(str) == [i \in 1..Len(str) |-> Lower(str[i])]

\* str.find(sub) != -1
Contains(str, sub) ==
    \E i \in 0..(Len(str) - Len(sub)) : SubSeq(str, i + 1, i + Len(sub)) = sub

RECURSIVE Words(_, _)
\* word_tokenize(text.strip()): the maximal runs of letters; cur is the word
\* being read
Words(str, cur) ==
    IF str = <<>> THEN (IF cur = <<>> THEN <<>> ELSE <<cur>>)
    ELSE IF Head(str) = " "
    THEN (IF cur = <<>> THEN <<>> ELSE <<cur>>) \o Words(Tail(str), <<>>)
    ELSE Words(Tail(str), Append(cur, Head(str)))

\* stopwords.words("english"), the entries written with the letters of Chars
StopWords == {<<"n", "o">>, <<"o", "n">>, <<"s", "o">>, <<"o">>, <<"s">>}

\* the WordNet nouns written with the letters of Chars
Nouns == {<<"n">>, <<"o">>, <<"s">>, <<"n", "o">>, <<"s", "o">>,
          <<"o", "s">>, <<"s", "o", "n">>}

\* WordNetLemmatizer.lemmatize: the shortest noun form, here the word
\* without its plural s when that is a noun
Lemmatize(w) ==
    IF Len(w) >= 2 /\ w[Len(w)] = "s" /\ SubSeq(w, 1, Len(w) - 1) \in Nouns
    THEN SubSeq(w, 1, Len(w) - 1)
    ELSE w

\* SnowballStemmer("english"), step 1a, the one step that applies: a final
\* s (not ss) goes when a vowel precedes it other than immediately
Stem(w) ==
    IF /\ Len(w) >= 3
       /\ w[Len(w)] = "s"
       /\ w[Len(w) - 1] # "s"
       /\ \E i \in 1..(Len(w) - 2) : w[i] \in Vowels
    THEN SubSeq(w, 1, Len(w) - 1)
    ELSE w

IsContentWord(w) == w \notin StopWords

\* TextTokenizer.__call__
TextTokenizer(text) ==
    LET text_tokens == SelectSeq(Words(LowerStr(text), <<>>), IsContentWord)
    IN  [i \in 1..Len(text_tokens) |-> Stem(Lemmatize(text_tokens[i]))]

\* lines 42-44
ExactMatch(win, ans, na) ==
    na = LowerStr(ans) \/ Contains(LowerStr(win), LowerStr(ans))

\* lines 46-54
TokenMatch(win, ans) ==
    LET ctx_tokens == TextTokenizer(LowerStr(win))
        ans_tokens == TextTokenizer(LowerStr(ans))
        nof_correct == Cardinality({i \in 1..Len(ans_tokens) :
                          \E j \in 1..Len(ctx_tokens) :
                              ctx_tokens[j] = ans_tokens[i]})
    IN  nof_correct > 0 /\ 2 * nof_correct > Len(ans_tokens)

\* lines 42-45: the sentinel and substring tests
LabelExact ==
    /\ pc = "should_correct_label"
    /\ called' = called \cup {"should_correct_label"}
    /\ correct' = Bool(ExactMatch(window_context, answer, no_answer_text))
    /\ pc' = IF ExactMatch(window_context, answer, no_answer_text)
             THEN "label_return" ELSE "label_tokens"
    /\ UNCHANGED <<entry, outcome, max_length, stride, enable_window,
                   no_answer_text, example, context, context_tokens, windows,
                   ranges, win_start, win_end, total_size, nof_windows,
                   window_texts, decision, concats, texts_a, texts_b,
                   features, window_context, answer>>

\* lines 46-54: the token overlap
LabelTokens ==
    /\ pc = "label_tokens"
    /\ called' = called \cup {"text_tokenizer"}
    /\ correct' = Bool(TokenMatch(window_context, answer))
    /\ pc' = "label_return"
    /\ UNCHANGED <<entry, outcome, max_length, stride, enable_window,
                   no_answer_text, example, context, context_tokens, windows,
                   ranges, win_start, win_end, total_size, nof_windows,
                   window_texts, decision, concats, texts_a, texts_b,
                   features, window_context, answer>>

\* line 56
LabelReturn ==
    /\ pc = "label_return"
    /\ pc' = "done"
    /\ UNCHANGED <<entry, outcome, called, max_length, stride, enable_window,
                   no_answer_text, example, context, context_tokens, windows,
                   ranges, win_start, win_end, total_size, nof_windows,
                   window_texts, decision, concats, texts_a, texts_b,
                   features, window_context, answer, correct>>

\* the no-answer texts handed to should_correct_label
Sentinels == {<<"n", "o">>, <<"N", "o">>, <<"o">>}

InitLabel ==
    /\ entry = "should_correct_label"
    /\ pc = "should_correct_label"
    /\ outcome = "none"
    /\ called = {}
    /\ max_length = Reserved
    /\ stride = 0
    /\ enable_window = FALSE
    /\ no_answer_text \in Sentinels
    /\ example = NoExample
    /\ context = <<>>
    /\ context_tokens = <<>>
    /\ windows = <<>>
    /\ ranges = <<>>
    /\ win_start = 0
    /\ win_end = 0
    /\ total_size = 0
    /\ nof_windows = 0
    /\ window_texts = <<>>
    /\ decision = Unset
    /\ concats = <<>>
    /\ texts_a = <<>>
    /\ texts_b = <<>>
    /\ features = <<>>
    /\ window_context \in SeqsUpTo(Chars, MaxWindowChars)
    /\ answer \in SeqsUpTo(Chars, MaxAnswerChars)
    /\ correct = Unset

NextLabel == LabelExact \/ LabelTokens \/ LabelReturn

SpecLabel == InitLabel /\ [][NextLabel]_vars

----------------------------------------------------------------------------
(* Properties of create_windows, called directly. *)

Returned == entry = "create_windows" /\ pc = "done"

Covered(p) == \E i \in 1..Len(ranges) : ranges[i].lo <= p /\ p < ranges[i].hi

\* C1: when create_windows returns and stride < max_length - 3, every token
\* position 0..n-1 of the context lies in at least one window.
Coverage ==
    (Returned /\ stride < Capacity(max_length))
        => \A p \in 0..(total_size - 1) : Covered(p)

Shared(r1, r2) == Max(0, Min(r1.hi, r2.hi) - Max(r1.lo, r2.lo))

\* C2: when create_windows returns and stride < max_length - 3, every pair
\* of consecutive windows other than the pair ending in the last window
\* shares exactly stride positions, the later one starting stride positions
\* before the end of the earlier one.
OverlapExactness ==
    (Returned /\ stride < Capacity(max_length))
        => \A i \in 1..(Len(ranges) - 2) :
              /\ ranges[i + 1].lo = ranges[i].hi - stride
              /\ Shared(ranges[i], ranges[i + 1]) = stride

\* C3: a call of create_windows with stride = max_length - 3 ends in the
\* ZeroDivisionError of the window-count computation, whatever the context:
\* no window is built, no list is returned and the loop is never entered.
ZeroStrideCapacityFault ==
    (stride = Capacity(max_length) /\ "create_windows" \in called)
        => /\ pc = "raised"
           /\ outcome = "ZeroDivisionError"
           /\ windows = <<>>
           /\ window_texts = <<>>

ZeroStrideCapacityFaultWitness ==
    /\ entry = "create_windows"
    /\ stride = Capacity(max_length)
    /\ pc = "raised"
    /\ context = <<>>

\* C9: every window is a contiguous slice of the context's tokens of at
\* most max_length - 3 tokens, whatever the stride.
WindowLengthBound ==
    \A i \in 1..Len(windows) :
        /\ Len(windows[i]) <= Capacity(max_length)
        /\ 0 <= ranges[i].lo /\ ranges[i].hi <= total_size
        /\ windows[i] = SubSeq(context_tokens, ranges[i].lo + 1, ranges[i].hi)

WindowLengthBoundWitness ==
    /\ Returned
    /\ stride > total_size
    /\ \E i \in 1..Len(ranges) : ranges[i].start < 0 /\ windows[i] # <<>>

----------------------------------------------------------------------------
(* Properties of convert_examples_to_features. *)

Converting == entry = "convert_examples_to_features"

Misconfigured == stride = NoStride \/ no_answer_text = None

\* C4: with enable_window and no stride or no no_answer_text the conversion
\* ends in the ValueError of line 206 before anything else ran: no
\* should_window decision, no windows, no tokenizer call, no feature
\* record.  Without enable_window the same absence is not an error: the
\* conversion goes on to the example.
EagerConfigurationError ==
    (Converting /\ Misconfigured /\ pc # "convert")
        => IF enable_window
           THEN /\ pc = "raised"
                /\ outcome = "ValueError"
                /\ called = {"convert_examples_to_features"}
                /\ decision = Unset
                /\ window_texts = <<>>
                /\ features = <<>>
           ELSE ~(pc = "raised" /\ called = {"convert_examples_to_features"})

EagerConfigurationErrorWitness ==
    /\ Converting
    /\ enable_window
    /\ stride # NoStride
    /\ no_answer_text = None
    /\ example.endings # <<>>
    /\ pc = "raised"

Windowed == Converting /\ decision = "True"

\* C5: on the windowed path the feature builder receives W * E pairs and
\* the pair at 0-based index i is (window i div E, concatenation i mod E).
WindowMajorOrdering ==
    (Windowed /\ pc = "features")
        => LET W == Len(window_texts)
               E == Len(concats)
           IN  /\ Len(texts_a) = W * E
               /\ Len(texts_b) = W * E
               /\ \A i \in 0..(W * E - 1) :
                     /\ texts_a[i + 1] = window_texts[(i \div E) + 1]
                     /\ texts_b[i + 1] = concats[(i % E) + 1].text

WindowMajorOrderingWitness ==
    /\ Windowed
    /\ pc = "features"
    /\ Len(window_texts) >= 2
    /\ Len(concats) >= 2
    /\ window_texts[1] # window_texts[2]
    /\ concats[1].text # concats[2].text

RowsOf(f) == 1..Len(f.input_ids)

\* C6 as stated: every inner sequence of input_ids of every returned
\* feature record has exactly max_length entries.
ShapeInvariant ==
    \A k \in 1..Len(features) : \A i \in RowsOf(features[k]) :
        Len(features[k].input_ids[i]) = max_length

\* the pair of row i needs no truncation, or its question+ending leaves
\* room for at least one context token beside the three special tokens
Truncatable(i) ==
    \/ Len(Encode(texts_a[i])) + Len(Encode(texts_b[i])) + Reserved
           <= max_length
    \/ Len(Encode(texts_b[i])) + Reserved < max_length

\* C6 as amended: the rows whose pair is truncatable have exactly
\* max_length entries.
ShapeInvariantWhenTruncatable ==
    \A k \in 1..Len(features) : \A i \in RowsOf(features[k]) :
        Truncatable(i) => Len(features[k].input_ids[i]) = max_length

ShapeInvariantWitness ==
    /\ Windowed
    /\ pc = "done"
    /\ \E i \in RowsOf(features[1]) :
          /\ Len(Encode(texts_a[i])) + Len(Encode(texts_b[i])) + Reserved
                 > max_length
          /\ Truncatable(i)
    /\ \E i \in RowsOf(features[1]) :
          Len(Encode(texts_a[i])) + Len(Encode(texts_b[i])) + Reserved
              < max_length

\* the concatenation should_window measures: the first of those with the
\* most characters
IsFirstLongest(j) ==
    /\ j \in 1..Len(example.endings)
    /\ \A k \in 1..Len(example.endings) :
          ConcatOne(example.question, example.endings[k]).chars
              <= ConcatOne(example.question, example.endings[j]).chars
    /\ \A k \in 1..(j - 1) :
          ConcatOne(example.question, example.endings[k]).chars
              < ConcatOne(example.question, example.endings[j]).chars

MeasuredTokens(j) ==
    Len(Encode(example.contexts[1]))
        + Len(Encode(ConcatOne(example.question, example.endings[j]).text))

\* C7: should_window returns true exactly when the tokens of contexts[0]
\* plus the tokens of the first longest-by-characters concatenation exceed
\* max_length - 3; at equality it returns false.
DeciderBoundary ==
    (decision # Unset)
        => \E j \in 1..Len(example.endings) :
              /\ IsFirstLongest(j)
              /\ decision = Bool(MeasuredTokens(j) > max_length - Reserved)

DeciderBoundaryWitness ==
    /\ decision = "False"
    /\ Len(example.endings) = 2
    /\ ConcatOne(example.question, example.endings[1]).chars
           = ConcatOne(example.question, example.endings[2]).chars
    /\ MeasuredTokens(1) = max_length - Reserved
    /\ MeasuredTokens(2) > max_length - Reserved

\* C10: with stride and no_answer_text supplied, 0 <= stride <
\* max_length - 3 and at least one ending, an example should_window sends
\* to the windowed path gets through create_windows and the pair assembly
\* without an exception, whatever the number of windows.
WindowedPathNeverRaises ==
    (/\ Windowed
     /\ no_answer_text # None
     /\ 0 <= stride /\ stride < Capacity(max_length)
     /\ Len(example.endings) >= 1)
        => ~(pc = "raised" /\ "create_input_features" \notin called)

----------------------------------------------------------------------------
(* Properties of should_correct_label. *)

\* C8: when the answer is the no-answer sentinel, the same string whatever
\* its letter case, should_correct_label returns true, whatever the window.
SentinelShortCircuit ==
    (entry = "should_correct_label" /\ pc = "done" /\ answer = no_answer_text)
        => correct = "True"

====
